---- MODULE Spec2Model ----
(***************************************************************************)
(* Model of the OSP inbound connection: the type-state connection          *)
(* (InboundConnection<HandshakeState> / InboundConnection<TransferState>), *)
(* its conversion, and the handshake state machine begin() of              *)
(* crates/server/src/connection/inbound.rs.                                *)
(*                                                                         *)
(* Every suspension point of begin() (a frame read, a frame write, the TXT *)
(* lookup) is one action.  The peer, the resolver, the random generator    *)
(* and the caller of the connection's API are the environment.             *)
(*                                                                         *)
(* A second part models DataType of crates/data/src/lib.rs: the handler    *)
(* list and handle(), encode_to_bytes and decode_from_bytes.               *)
(***************************************************************************)
EXTENDS Naturals, Sequences, FiniteSets

(* ------------------------------ bounds --------------------------------- *)

\* Number of streams the node accepts.
MaxConns == 2

\* Number of begin() invocations made, over all connections.
MaxRuns == 2

Conns == 1..MaxConns

\* Number of handlers registered on the DataType.
MaxHandlers == 3

\* Number of handle() calls made on the DataType.
MaxDispatches == 2

\* Length of the longest buffer handed to encode_to_bytes.
MaxBufLen == 5

(* --------------------------- value domains ----------------------------- *)

\* The nil UUID: a value Uuid::new_v4() never returns.  It stands for the nonce
\* of a connection that has none (not constructed) and for a forged nonce.
NilUuid == 0

\* Uuid values: 1.. are the values Uuid::new_v4() returns, in the order drawn
\* (a v4 UUID is 122 random bits: every draw is modelled as a value not drawn
\* before).
Uuids == NilUuid..MaxConns

\* `let mut challenge_bytes = [0; 256]`: the array before rand_bytes fills it.
\* It stands for "no challenge bytes generated in this run".
Zeroed == 0

\* [u8; 256] values: 1.. are the values rand_bytes() produces, in the order
\* drawn (each draw a value not drawn before).
ChallengeValues == Zeroed..MaxRuns

\* ConnectionType: Unknown is the variant the source names; Declared stands for
\* any other variant a peer may declare in Hello.
ConnectionTypes == {"Unknown", "Declared"}

Hostnames == {"a.test", "b.test"}

\* The value of a local or field that holds nothing (Option::None, or a local
\* not yet assigned).
None == "None"

(* --------------------------- wire messages ----------------------------- *)

\* HandshakePacketGuestToHost
Hello(ct) == [type |-> "Hello", connection_type |-> ct]
Identify(h) == [type |-> "Identify", hostname |-> h]
Verify(ch, n) == [type |-> "Verify", challenge |-> ch, nonce |-> n]

GuestPackets ==
    {Hello(ct) : ct \in ConnectionTypes}
    \cup {Identify(h) : h \in Hostnames}
    \cup {Verify(ch, n) : ch \in ChallengeValues, n \in Uuids}

\* A complete frame that does not decode into a HandshakePacketGuestToHost.
Malformed == [type |-> "Malformed"]

\* HandshakePacketHostToGuest
Acknowledge(ok, err) == [type |-> "Acknowledge", ok |-> ok, err |-> err]
Challenge(enc, n) == [type |-> "Challenge", encrypted_challenge |-> enc, nonce |-> n]
Close(cc, err) == [type |-> "Close", can_continue |-> cc, err |-> err]

\* pub_key.public_encrypt(&challenge_bytes, ..., Padding::PKCS1): the ciphertext
\* of plain under the key published for hostname h.
PublicEncrypt(h, plain) == <<"rsa", h, plain>>

(* ------------------------------ state ---------------------------------- *)

VARIABLES
    phase,            \* phase[c]: None (not constructed), Handshake, Transfer: the TState of the connection
    connection_type,  \* InboundConnection::connection_type
    nonce,            \* HandshakeState::nonce
    stream,           \* the underlying TcpStream: "open" or "closed"
    pc,               \* position of begin() on the connection
    runs,             \* begin() invocations made on the connection
    hostname,         \* begin()'s local: the hostname of Identify
    challenge_bytes,  \* begin()'s local: the bytes generated in this run
    closing,          \* arguments of the send_close_err call in progress
    result,           \* what the last begin() returned
    log,              \* frames read, messages written and lookups of the current run, in order
    issued,           \* every Challenge message written, over all runs and connections
    uuids,            \* number of Uuid::new_v4() draws so far
    rands,            \* number of rand_bytes() draws so far
    handlers,         \* DataType::handlers
    calls,            \* the handler invocations of the last handle() call, in order
    dispatches,       \* handle() calls made so far
    obj,              \* the payload the caller lent to the last handle() call
    buf,              \* the caller's buffer (BytesMut, then frozen to Bytes)
    encoded,          \* what the last encode_to_bytes returned, and its argument
    decoded           \* what decode_from_bytes returned on buf, if it was called since

connVars == <<phase, connection_type, nonce, stream, pc, runs, hostname,
              challenge_bytes, closing, result, log, issued, uuids, rands>>

dataVars == <<handlers, calls, dispatches, obj, buf, encoded, decoded>>

vars == <<connVars, dataVars>>

NoResult == [tag |-> "none", kind |-> None, err |-> <<>>]
Ok == [tag |-> "Ok", kind |-> None, err |-> <<>>]
Err(kind, err) == [tag |-> "Err", kind |-> kind, err |-> err]
Panic == [tag |-> "Panic", kind |-> None, err |-> <<>>]

NoClosing == [kind |-> None, err |-> <<>>]

In(f) == [dir |-> "in", msg |-> f]
Out(m) == [dir |-> "out", msg |-> m]
Dns(o) == [dir |-> "dns", msg |-> [type |-> o]]

\* A payload type in the manner of the Data trait's example (MyData), with
\* an integer field next to the boolean one.
Counts == {250, 251, 256, 65535}
Payloads == [test_val : BOOLEAN, count : Counts]
NoPayload == [test_val |-> FALSE, count |-> 250]

\* Result<usize, EncodeError> and Result<(Box<TData>, usize), DecodeError>.
NoCodecResult == [tag |-> "none", obj |-> NoPayload, len |-> 0, err |-> None]
CodecOk(p, n) == [tag |-> "Ok", obj |-> p, len |-> n, err |-> None]
CodecErr(p, e) == [tag |-> "Err", obj |-> p, len |-> 0, err |-> e]

Init ==
    /\ phase = [c \in Conns |-> None]
    /\ connection_type = [c \in Conns |-> None]
    /\ nonce = [c \in Conns |-> NilUuid]
    /\ stream = [c \in Conns |-> "open"]
    /\ pc = [c \in Conns |-> "idle"]
    /\ runs = [c \in Conns |-> 0]
    /\ hostname = [c \in Conns |-> None]
    /\ challenge_bytes = [c \in Conns |-> Zeroed]
    /\ closing = [c \in Conns |-> NoClosing]
    /\ result = [c \in Conns |-> NoResult]
    /\ log = [c \in Conns |-> <<>>]
    /\ issued = <<>>
    /\ uuids = 0
    /\ rands = 0
    /\ handlers = <<>>
    /\ calls = <<>>
    /\ dispatches = 0
    /\ obj = NoPayload
    /\ buf = <<>>
    /\ encoded = NoCodecResult
    /\ decoded = NoCodecResult

(* ----------------------- construction, conversion ---------------------- *)

\* WithStream with one fixed nonce for every connection instead of a new
\* v4 uuid.
WithStream_FixedNonce(c) ==
    /\ phase[c] = None
    /\ phase' = [phase EXCEPT ![c] = "Handshake"]
    /\ connection_type' = [connection_type EXCEPT ![c] = "Unknown"]
    /\ nonce' = [nonce EXCEPT ![c] = 1]
    /\ uuids' = uuids + 1
    /\ UNCHANGED <<stream, pc, runs, hostname, challenge_bytes, closing, result, log, issued, rands, dataVars>>

\* InboundConnection::<HandshakeState>::with_stream: connection_type Unknown, a
\* new v4 nonce.  (A failing Protocol::with_stream returns before any
\* connection exists: no state changes.)
WithStream(c) ==
    /\ phase[c] = None
    /\ phase' = [phase EXCEPT ![c] = "Handshake"]
    /\ connection_type' = [connection_type EXCEPT ![c] = "Unknown"]
    /\ nonce' = [nonce EXCEPT ![c] = uuids + 1]
    /\ uuids' = uuids + 1
    /\ UNCHANGED <<stream, pc, runs, hostname, challenge_bytes, closing, result, log, issued, rands, dataVars>>

\* From building the Transfer-state connection as with_stream builds one:
\* connection_type Unknown instead of value.connection_type.
From_TypeUnknown(c) ==
    /\ phase[c] = "Handshake"
    /\ pc[c] = "idle"
    /\ phase' = [phase EXCEPT ![c] = "Transfer"]
    /\ connection_type' = [connection_type EXCEPT ![c] = "Unknown"]
    /\ UNCHANGED <<nonce, stream, pc, runs, hostname, challenge_bytes,
                   closing, result, log, issued, uuids, rands, dataVars>>

\* From taking the Handshake-state connection by reference: the source value
\* is not consumed, a begin() in progress on it goes on.
From_ByReference(c) ==
    /\ phase[c] = "Handshake"
    /\ phase' = [phase EXCEPT ![c] = "Transfer"]
    /\ UNCHANGED <<connection_type, nonce, stream, pc, runs, hostname, challenge_bytes,
                   closing, result, log, issued, uuids, rands, dataVars>>

\* impl From<InboundConnection<HandshakeState>> for InboundConnection<TransferState>:
\* takes the Handshake-state connection by value (so no begin() borrows it),
\* keeps connection_type, replaces the codecs (TransferState for HandshakeState).
\* TransferState has no nonce: nonce[c] means nothing once phase[c] is Transfer.
From(c) ==
    /\ phase[c] = "Handshake"
    /\ pc[c] = "idle"
    /\ phase' = [phase EXCEPT ![c] = "Transfer"]
    /\ UNCHANGED <<connection_type, nonce, stream, pc, runs, hostname, challenge_bytes,
                   closing, result, log, issued, uuids, rands, dataVars>>

\* Either party closes the underlying stream while begin() is suspended on it.
\* (A stream closed between two runs is met by the next run's first read, as
\* one closed right after that run began.)
StreamClose(c) ==
    /\ stream[c] = "open"
    /\ pc[c] \notin {"idle", "panicked"}
    /\ stream' = [stream EXCEPT ![c] = "closed"]
    /\ UNCHANGED <<phase, connection_type, nonce, pc, runs, hostname, challenge_bytes,
                   closing, result, log, issued, uuids, rands, dataVars>>

(* -------------------- the Framed Protocol Channel ---------------------- *)

\* The nonces and challenge plaintexts a peer can put in a Verify: those some
\* connection holds (a peer may echo what any Challenge carried), and one
\* value of each kind that no connection holds, standing for all the others.
PeerNonces == {NilUuid} \cup {nonce[d] : d \in Conns}
PeerChallenges == {Zeroed} \cup {challenge_bytes[d] : d \in Conns}

\* The frames a peer can have written when begin() expects a packet of the
\* given type: every packet of that type, one packet of each other type (the
\* match looks at the variant alone), and a frame that does not decode.
PeerFrames(expected) ==
    (IF expected = "Hello" THEN {Hello(ct) : ct \in ConnectionTypes}
                           ELSE {Hello("Unknown")})
    \cup (IF expected = "Identify" THEN {Identify(h) : h \in Hostnames}
                                   ELSE {Identify("a.test")})
    \cup (IF expected = "Verify"
            THEN {Verify(ch, n) : ch \in PeerChallenges, n \in PeerNonces}
            ELSE {Verify(Zeroed, NilUuid)})
    \cup {Malformed}

\* Protocol::read_frame on a stream that is open can deliver any frame the
\* peer wrote; on a closed stream it fails.
ReadableFrames(c, expected) == IF stream[c] = "open" THEN PeerFrames(expected) ELSE {}

\* Protocol::send_message succeeds exactly when the stream can be written.
CanSend(c) == stream[c] = "open"

\* The io::Error that `?` propagates out of read_frame and send_message.
TruncatedError == Err("Truncated", <<"stream closed">>)
MalformedError == Err("Malformed", <<"frame does not decode">>)
IoFailureError == Err("IoFailure", <<"write failed">>)

\* From<ErrorStack> for io::Error: what `?` makes of an openssl error.
ErrorStackError == Err("Other", <<"openssl error stack">>)

(* ----------------------- begin(): pure decisions ----------------------- *)

ExpectedHello == <<"Expected hello packet">>
ExpectedIdentify == <<"Expected identify packet">>
ExpectedVerify == <<"Expected challenge verification packet">>
InvalidNonce == <<"Invalid nonce">>
ChallengeFailed == <<"Challenge failed">>

\* format!("Failed to resolve SRV record for {}. Is it located at _osp.{}?", hostname, hostname)
NoRecordText(h) ==
    <<"Failed to resolve SRV record for ", h, ". Is it located at ", "_osp.", h, "?">>

\* format!("...?\n\nFurther Details: {}", hostname, hostname, e.to_string())
LookupFailedText(h) ==
    NoRecordText(h) \o <<"\n\nFurther Details: ", "resolve error">>

\* VerifyOutcome without the comparison of line 107.
VerifyOutcome_NonceUnchecked(pkt, n, bytes) ==
    IF pkt.challenge = bytes THEN "Verified" ELSE "ChallengeFailed"

\* Lines 107 and 112: the nonce is compared first, then the challenge bytes.
VerifyOutcome(pkt, n, bytes) ==
    IF pkt.nonce # n THEN "InvalidNonce"
    ELSE IF pkt.challenge = bytes THEN "Verified"
    ELSE "ChallengeFailed"

\* What the TXT lookup and the synchronous code after it (key parse, random
\* bytes, encryption) can come to.
LookupOutcomes ==
    {"LookupFailed", "NoRecord", "BadPem", "RandFailed", "EncryptFailed", "Encrypted"}

\* GeneratesChallenge with the challenge generated before the record is looked at.
GeneratesChallenge_BeforeRecordCheck(o) == o \in {"NoRecord", "EncryptFailed", "Encrypted"}

\* The outcomes on which lines 94-95 have run: challenge bytes were generated.
GeneratesChallenge(o) == o \in {"EncryptFailed", "Encrypted"}

\* The Close message send_close_err writes.
CloseErrMessage(err) == Close(FALSE, err)

\* CloseOkMessage with the flag of send_close_err's Close.
CloseOkMessage_CannotContinue == Close(FALSE, None)

\* The Close message of line 114.
CloseOkMessage == Close(TRUE, None)

(* --------------------------- begin(): steps ---------------------------- *)

\* What no step of begin() touches.
CallerFrame == UNCHANGED <<phase, nonce, stream, runs, uuids, dataVars>>

\* begin() returns r to its caller.
Return(c, r) ==
    /\ result' = [result EXCEPT ![c] = r]
    /\ pc' = [pc EXCEPT ![c] = "idle"]
    /\ closing' = [closing EXCEPT ![c] = NoClosing]

\* begin() goes on to position p.
Goto(c, p) ==
    /\ pc' = [pc EXCEPT ![c] = p]
    /\ UNCHANGED <<result, closing>>

\* begin() calls send_close_err(kind, err).
CallSendCloseErr(c, kind, err) ==
    /\ pc' = [pc EXCEPT ![c] = "send_close_err"]
    /\ closing' = [closing EXCEPT ![c] = [kind |-> kind, err |-> err]]
    /\ UNCHANGED result

Logged(c, e) == log' = [log EXCEPT ![c] = Append(@, e)]

RECURSIVE RunsUpTo(_)
RunsUpTo(n) == IF n = 0 THEN 0 ELSE runs[n] + RunsUpTo(n - 1)

\* begin() invocations made so far, over all connections.
TotalRuns == RunsUpTo(MaxConns)

\* The caller invokes begin(&mut self) on a Handshake-state connection.
Begin(c) ==
    /\ phase[c] = "Handshake"
    /\ pc[c] = "idle"
    /\ TotalRuns < MaxRuns
    /\ runs' = [runs EXCEPT ![c] = @ + 1]
    /\ pc' = [pc EXCEPT ![c] = "read_hello"]
    /\ result' = [result EXCEPT ![c] = NoResult]
    /\ log' = [log EXCEPT ![c] = <<>>]
    /\ hostname' = [hostname EXCEPT ![c] = None]
    /\ challenge_bytes' = [challenge_bytes EXCEPT ![c] = Zeroed]
    /\ UNCHANGED <<phase, connection_type, nonce, stream, closing, issued, uuids, rands, dataVars>>

\* Line 71: read_frame().await?, then the match on Hello.
ReadHello(c) ==
    /\ pc[c] = "read_hello"
    /\ CallerFrame
    /\ UNCHANGED <<hostname, challenge_bytes, issued, rands>>
    /\ \/ /\ ReadableFrames(c, "Hello") = {}
          /\ Return(c, TruncatedError)
          /\ UNCHANGED <<connection_type, log>>
       \/ \E f \in ReadableFrames(c, "Hello") :
            /\ Logged(c, In(f))
            /\ IF f = Malformed
                 THEN Return(c, MalformedError) /\ UNCHANGED connection_type
               ELSE IF f.type = "Hello"
                 THEN /\ connection_type' = [connection_type EXCEPT ![c] = f.connection_type]
                      /\ Goto(c, "send_ack")
               ELSE /\ CallSendCloseErr(c, "InvalidInput", ExpectedHello)
                    /\ UNCHANGED connection_type

\* SendAcknowledge without the write: begin() goes straight on to read Identify.
SendAcknowledge_NotSent(c) ==
    /\ pc[c] = "send_ack"
    /\ CallerFrame
    /\ UNCHANGED <<connection_type, hostname, challenge_bytes, issued, rands, log>>
    /\ Goto(c, "read_identify")

\* Lines 74-77: send Acknowledge { ok: true, err: None }.
SendAcknowledge(c) ==
    /\ pc[c] = "send_ack"
    /\ CallerFrame
    /\ UNCHANGED <<connection_type, hostname, challenge_bytes, issued, rands>>
    /\ IF CanSend(c)
         THEN Logged(c, Out(Acknowledge(TRUE, None))) /\ Goto(c, "read_identify")
         ELSE Return(c, IoFailureError) /\ UNCHANGED log

\* Line 79: read_frame().await?, then the match on Identify.
ReadIdentify(c) ==
    /\ pc[c] = "read_identify"
    /\ CallerFrame
    /\ UNCHANGED <<connection_type, challenge_bytes, issued, rands>>
    /\ \/ /\ ReadableFrames(c, "Identify") = {}
          /\ Return(c, TruncatedError)
          /\ UNCHANGED <<hostname, log>>
       \/ \E f \in ReadableFrames(c, "Identify") :
            /\ Logged(c, In(f))
            /\ IF f = Malformed
                 THEN Return(c, MalformedError) /\ UNCHANGED hostname
               ELSE IF f.type = "Identify"
                 THEN /\ hostname' = [hostname EXCEPT ![c] = f.hostname]
                      /\ Goto(c, "lookup")
               ELSE /\ CallSendCloseErr(c, "InvalidInput", ExpectedIdentify)
                    /\ UNCHANGED hostname

\* Lines 85-97 and 127-146: the TXT lookup of _osp.<hostname> and, on a record,
\* the key parse, the random challenge and its encryption.
Lookup(c) ==
    /\ pc[c] = "lookup"
    /\ CallerFrame
    /\ UNCHANGED <<connection_type, hostname, issued>>
    /\ \E o \in LookupOutcomes :
         /\ Logged(c, Dns(o))
         /\ IF GeneratesChallenge(o)
              THEN /\ challenge_bytes' = [challenge_bytes EXCEPT ![c] = rands + 1]
                   /\ rands' = rands + 1
              ELSE UNCHANGED <<challenge_bytes, rands>>
         /\ CASE o = "LookupFailed" ->
                   CallSendCloseErr(c, "Other", LookupFailedText(hostname[c]))
              [] o = "NoRecord" ->
                   CallSendCloseErr(c, "InvalidData", NoRecordText(hostname[c]))
              [] o = "BadPem" -> Return(c, ErrorStackError)
              [] o = "RandFailed" ->
                   /\ result' = [result EXCEPT ![c] = Panic]
                   /\ pc' = [pc EXCEPT ![c] = "panicked"]
                   /\ UNCHANGED closing
              [] o = "EncryptFailed" -> Return(c, ErrorStackError)
              [] o = "Encrypted" -> Goto(c, "send_challenge")

\* Lines 100-103: send Challenge { encrypted_challenge, nonce: self.state.nonce }.
SendChallenge(c) ==
    /\ pc[c] = "send_challenge"
    /\ CallerFrame
    /\ UNCHANGED <<connection_type, hostname, challenge_bytes, rands>>
    /\ IF CanSend(c)
         THEN LET m == Challenge(PublicEncrypt(hostname[c], challenge_bytes[c]), nonce[c])
              IN  /\ Logged(c, Out(m))
                  /\ issued' = Append(issued, [conn |-> c, run |-> runs[c], nonce |-> m.nonce])
                  /\ Goto(c, "read_verify")
         ELSE Return(c, IoFailureError) /\ UNCHANGED <<log, issued>>

\* Lines 105-126: read_frame().await?, the match on Verify, the two comparisons.
ReadVerify(c) ==
    /\ pc[c] = "read_verify"
    /\ CallerFrame
    /\ UNCHANGED <<connection_type, hostname, challenge_bytes, issued, rands>>
    /\ \/ /\ ReadableFrames(c, "Verify") = {}
          /\ Return(c, TruncatedError)
          /\ UNCHANGED log
       \/ \E f \in ReadableFrames(c, "Verify") :
            /\ Logged(c, In(f))
            /\ IF f = Malformed
                 THEN Return(c, MalformedError)
               ELSE IF f.type = "Verify"
                 THEN LET o == VerifyOutcome(f, nonce[c], challenge_bytes[c])
                      IN  CASE o = "InvalidNonce" ->
                                 CallSendCloseErr(c, "InvalidData", InvalidNonce)
                            [] o = "Verified" -> Goto(c, "send_close_ok")
                            [] o = "ChallengeFailed" ->
                                 CallSendCloseErr(c, "PermissionDenied", ChallengeFailed)
               ELSE CallSendCloseErr(c, "InvalidInput", ExpectedVerify)

\* Lines 114-119: send Close { can_continue: true, err: None }, then Ok(()).
SendCloseOk(c) ==
    /\ pc[c] = "send_close_ok"
    /\ CallerFrame
    /\ UNCHANGED <<connection_type, hostname, challenge_bytes, issued, rands>>
    /\ IF CanSend(c)
         THEN Logged(c, Out(CloseOkMessage)) /\ Return(c, Ok)
         ELSE Return(c, IoFailureError) /\ UNCHANGED log

\* SendCloseErr whose error is not returned by begin(): the run goes on to
\* the Close of line 114.
SendCloseErr_NoReturn(c) ==
    /\ pc[c] = "send_close_err"
    /\ CallerFrame
    /\ UNCHANGED <<connection_type, hostname, challenge_bytes, issued, rands>>
    /\ IF CanSend(c)
         THEN /\ Logged(c, Out(CloseErrMessage(closing[c].err)))
              /\ Goto(c, "send_close_ok")
         ELSE /\ result' = [result EXCEPT ![c] = Panic]
              /\ pc' = [pc EXCEPT ![c] = "panicked"]
              /\ UNCHANGED <<closing, log>>

\* send_close_err (lines 61-68): send Close { can_continue: false, err: Some(err) }
\* and unwrap() the result of the write; begin() returns the io::Error built.
SendCloseErr(c) ==
    /\ pc[c] = "send_close_err"
    /\ CallerFrame
    /\ UNCHANGED <<connection_type, hostname, challenge_bytes, issued, rands>>
    /\ IF CanSend(c)
         THEN /\ Logged(c, Out(CloseErrMessage(closing[c].err)))
              /\ Return(c, Err(closing[c].kind, closing[c].err))
         ELSE /\ result' = [result EXCEPT ![c] = Panic]
              /\ pc' = [pc EXCEPT ![c] = "panicked"]
              /\ UNCHANGED <<closing, log>>

BeginStep(c) ==
    \/ ReadHello(c)
    \/ SendAcknowledge(c)
    \/ ReadIdentify(c)
    \/ Lookup(c)
    \/ SendChallenge(c)
    \/ ReadVerify(c)
    \/ SendCloseOk(c)
    \/ SendCloseErr(c)

(* --------------------------- specifications ---------------------------- *)

\* The connection under any caller the types allow: construct, call begin()
\* any number of times, convert at any time no begin() is running.
Next ==
    \E c \in Conns :
        \/ WithStream(c)
        \/ Begin(c)
        \/ BeginStep(c)
        \/ From(c)
        \/ StreamClose(c)

Spec == Init /\ [][Next]_vars

\* The node runtime, as the design describes it: one task per accepted stream
\* constructs the connection, runs begin() once and converts the connection
\* when begin() returned Ok; on an error it discards the connection.
RtBegin(c) ==
    /\ runs[c] = 0
    /\ Begin(c)

RtInto(c) ==
    /\ result[c].tag = "Ok"
    /\ From(c)

RuntimeNext ==
    \E c \in Conns :
        \/ WithStream(c)
        \/ RtBegin(c)
        \/ BeginStep(c)
        \/ RtInto(c)
        \/ StreamClose(c)

RuntimeSpec == Init /\ [][RuntimeNext]_vars

\* Spec with fair scheduling of begin(): a run that can take a step takes one
\* in the end.  A read step is the arrival of the awaited frame (or of the
\* stream's end), the lookup step is the resolver's answer: without this
\* fairness a run may stay at a step forever, since no step of begin() has
\* a timeout.
FairSpec == Spec /\ \A c \in Conns : WF_vars(BeginStep(c))

(* ------------------------- DataType (osp_data) ------------------------- *)

\* The handlers a user can register (closures over Box<&TData>).
HandlerIds == {"h1", "h2"}

\* One invocation DataHandler::handle(obj) of a handler.
Call(h, o) == [handler |-> h, obj |-> o]

\* HandleLoop walking the handler list from its end.
HandleLoop_Reversed(hs, o) == [i \in 1..Len(hs) |-> Call(hs[Len(hs) + 1 - i], o)]

\* DataType::handle: `for handler in &self.handlers { handler.handle(obj.clone()) }`.
\* obj is a Box<&TData>: every clone holds the same shared reference.  A
\* handler is taken to return (a handler's own failure is outside the design).
HandleLoop(hs, o) == [i \in 1..Len(hs) |-> Call(hs[i], o)]

\* bincode, config::standard(): a bool is one byte, 0 or 1.
BoolByte(v) == IF v THEN 1 ELSE 0

\* bincode, config::standard(): variable-length integers.  A u16 below 251 is
\* one byte; otherwise the marker byte 251 and the two bytes little-endian.
SingleByteMax == 250
U16Marker == 251
Byte == 256

\* What the encoder hands to the writer, one write call per element.
EncodeChunks(p) ==
    << <<BoolByte(p.test_val)>> >> \o
    (IF p.count <= SingleByteMax
       THEN << <<p.count>> >>
       ELSE << <<U16Marker>>, <<p.count % Byte, p.count \div Byte>> >>)

\* Bytes ch written into the slice b after its first pos bytes.
Overwrite(b, pos, ch) ==
    [i \in 1..Len(b) |-> IF i > pos /\ i <= pos + Len(ch) THEN ch[i - pos] ELSE b[i]]

\* bincode::encode_into_slice: the writer is the slice itself (the bytes the
\* BytesMut already holds, not its capacity); a write that does not fit
\* fails with UnexpectedEnd and leaves the earlier writes in place.
RECURSIVE WriteChunks(_, _, _)
WriteChunks(b, pos, chunks) ==
    IF chunks = <<>> THEN [ok |-> TRUE, buf |-> b, len |-> pos]
    ELSE IF pos + Len(Head(chunks)) > Len(b) THEN [ok |-> FALSE, buf |-> b, len |-> pos]
    ELSE WriteChunks(Overwrite(b, pos, Head(chunks)), pos + Len(Head(chunks)), Tail(chunks))

\* U16FromLeBytes reading the two bytes most significant first.
U16FromLeBytes_BigEndian(lo, hi) == lo * Byte + hi

\* u16::from_le_bytes.
U16FromLeBytes(lo, hi) == lo + hi * Byte

\* bincode::decode_from_slice::<TData, _>(buf, standard()): the value and the
\* number of bytes read; bytes after the value are left alone.
DecodeFromSlice(b) ==
    IF Len(b) < 1 THEN CodecErr(NoPayload, "UnexpectedEnd")
    ELSE IF b[1] \notin {0, 1} THEN CodecErr(NoPayload, "InvalidBooleanValue")
    ELSE IF Len(b) < 2 THEN CodecErr(NoPayload, "UnexpectedEnd")
    ELSE IF b[2] <= SingleByteMax
      THEN CodecOk([test_val |-> b[1] = 1, count |-> b[2]], 2)
    ELSE IF b[2] # U16Marker THEN CodecErr(NoPayload, "InvalidIntegerType")
    ELSE IF Len(b) < 4 THEN CodecErr(NoPayload, "UnexpectedEnd")
    ELSE CodecOk([test_val |-> b[1] = 1, count |-> U16FromLeBytes(b[3], b[4])], 4)

\* The buffers a caller hands to encode_to_bytes: any length, filled.
FillBytes == {0, 1, 255}
Buffers == {[i \in 1..k |-> f] : k \in 0..MaxBufLen, f \in FillBytes}

\* The registry appends a handler to the list of the payload type.
Register(h) ==
    /\ Len(handlers) < MaxHandlers
    /\ handlers' = Append(handlers, h)
    /\ UNCHANGED <<calls, dispatches, obj, buf, encoded, decoded, connVars>>

\* DataType::handle(&self, obj).
Handle(p) ==
    /\ dispatches < MaxDispatches
    /\ dispatches' = dispatches + 1
    /\ obj' = p
    /\ calls' = HandleLoop(handlers, p)
    /\ UNCHANGED <<handlers, buf, encoded, decoded, connVars>>

\* DataType::encode_to_bytes(&self, buf, obj).
EncodeToBytes(b, p) ==
    LET w == WriteChunks(b, 0, EncodeChunks(p))
    IN  /\ buf' = w.buf
        /\ encoded' = IF w.ok THEN CodecOk(p, w.len) ELSE CodecErr(p, "UnexpectedEnd")
        /\ decoded' = NoCodecResult
        /\ UNCHANGED <<handlers, calls, dispatches, obj, connVars>>

\* DataType::decode_from_bytes(&self, buf), on the caller's buffer.
DecodeFromBytes ==
    /\ decoded = NoCodecResult
    /\ decoded' = DecodeFromSlice(buf)
    /\ UNCHANGED <<handlers, calls, dispatches, obj, buf, encoded, connVars>>

\* Registration and dispatch on one DataType.
DispatchNext ==
    \/ \E h \in HandlerIds : Register(h)
    \/ \E p \in Payloads : Handle(p)

DispatchSpec == Init /\ [][DispatchNext]_vars

\* Encoding and decoding with one DataType.
CodecNext ==
    \/ \E b \in Buffers, p \in Payloads : EncodeToBytes(b, p)
    \/ DecodeFromBytes

CodecSpec == Init /\ [][CodecNext]_vars

(* ------------------------ reading the run's log ------------------------ *)

IsIn(e, type) == e.dir = "in" /\ e.msg.type = type
IsOut(e, type) == e.dir = "out" /\ e.msg.type = type
IsDns(e) == e.dir = "dns"

\* The frames begin() read in the current run, and the messages it wrote.
InFrames(c) == SelectSeq(log[c], LAMBDA e : e.dir = "in")
OutMessages(c) == SelectSeq(log[c], LAMBDA e : e.dir = "out")

\* begin() has returned Ok or Err on the connection (the last run is over).
Returned(c) == pc[c] = "idle" /\ result[c].tag \in {"Ok", "Err"}

\* The last run is over: begin() returned, or it panicked.
RunOver(c) == Returned(c) \/ pc[c] = "panicked"

\* The host wrote Close { can_continue: true } in the current run.
CloseOkSent(c) ==
    \E i \in DOMAIN log[c] : IsOut(log[c][i], "Close") /\ log[c][i].msg.can_continue

\* The host wrote a Challenge in the current run.
ChallengeSent(c) == \E i \in DOMAIN log[c] : IsOut(log[c][i], "Challenge")

\* In the current run the host wrote a Challenge and later read a Verify whose
\* nonce is the one that Challenge carried and whose challenge is the bytes
\* generated in this run.
MatchingVerify(c) ==
    \E i, j \in DOMAIN log[c] :
        /\ i < j
        /\ IsOut(log[c][i], "Challenge")
        /\ IsIn(log[c][j], "Verify")
        /\ log[c][j].msg.nonce = log[c][i].msg.nonce
        /\ challenge_bytes[c] # Zeroed
        /\ log[c][i].msg.encrypted_challenge = PublicEncrypt(hostname[c], challenge_bytes[c])
        /\ log[c][j].msg.challenge = challenge_bytes[c]

(* ------------------------------- claims -------------------------------- *)

TypeOK ==
    /\ phase \in [Conns -> {None, "Handshake", "Transfer"}]
    /\ connection_type \in [Conns -> ConnectionTypes \cup {None}]
    /\ nonce \in [Conns -> Uuids]
    /\ stream \in [Conns -> {"open", "closed"}]
    /\ runs \in [Conns -> 0..MaxRuns]
    /\ hostname \in [Conns -> Hostnames \cup {None}]
    /\ challenge_bytes \in [Conns -> ChallengeValues]
    /\ \A c \in Conns : result[c].tag \in {"none", "Ok", "Err", "Panic"}

\* C1: begin() returns Ok, and the host writes Close{can_continue: true}, only
\* in a run in which a Verify was read whose nonce is the nonce of the
\* Challenge the host wrote and whose challenge is the bytes generated in that
\* run; every other run that returns returns Err and writes no such Close.
C1_OkOnlyOnMatchingVerify ==
    \A c \in Conns :
        /\ result[c].tag = "Ok" => CloseOkSent(c)
        /\ CloseOkSent(c) => MatchingVerify(c)
        /\ (Returned(c) /\ ~MatchingVerify(c)) =>
              (result[c].tag = "Err" /\ ~CloseOkSent(c))

C1_Witness ==
    \E c \in Conns : Returned(c) /\ result[c] = Ok /\ CloseOkSent(c) /\ MatchingVerify(c)

\* C2: a connection in Transfer state has had a begin() return Ok after a
\* Verify with the matching nonce and challenge; no connection whose handshake
\* has not run or has failed is converted.
C2_TransferOnlyAfterHandshake ==
    \A c \in Conns :
        phase[c] = "Transfer" => (result[c] = Ok /\ MatchingVerify(c))

\* C3: whenever begin() has returned an error, the host wrote, in that run, a
\* Close with can_continue false and a non-empty error string.
C3_ErrImpliesCloseSent ==
    \A c \in Conns :
        (Returned(c) /\ result[c].tag = "Err") =>
            \E i \in DOMAIN log[c] :
                /\ IsOut(log[c][i], "Close")
                /\ ~log[c][i].msg.can_continue
                /\ log[c][i].msg.err # None
                /\ log[c][i].msg.err # <<>>

\* In the current run the host read a Verify whose nonce is not the nonce of
\* the Challenge it wrote.
VerifyWithWrongNonce(c) ==
    \E i, j \in DOMAIN log[c] :
        /\ i < j
        /\ IsOut(log[c][i], "Challenge")
        /\ IsIn(log[c][j], "Verify")
        /\ log[c][j].msg.nonce # log[c][i].msg.nonce

\* In the current run the host read a Verify whose challenge is not the bytes
\* generated in this run.
VerifyWithWrongChallenge(c) ==
    \E j \in DOMAIN log[c] :
        /\ IsIn(log[c][j], "Verify")
        /\ ChallengeSent(c)
        /\ log[c][j].msg.challenge # challenge_bytes[c]

\* C4: a run in which the Verify read carries a nonce other than the one
\* issued in Challenge ends with begin() returning an InvalidData error,
\* whatever the challenge bytes, and the connection does not reach Transfer.
C4_WrongNonceIsInvalidData ==
    \A c \in Conns :
        VerifyWithWrongNonce(c) =>
            /\ phase[c] # "Transfer"
            /\ RunOver(c) => (result[c].tag = "Err" /\ result[c].kind = "InvalidData")

\* C5: a run in which the Verify read carries challenge bytes other than the
\* bytes generated ends with begin() returning a PermissionDenied error.
C5_WrongChallengeIsPermissionDenied ==
    \A c \in Conns :
        (VerifyWithWrongChallenge(c) /\ RunOver(c)) =>
            (result[c].tag = "Err" /\ result[c].kind = "PermissionDenied")

\* The peer of the current run sent Hello, then Identify with a hostname whose
\* TXT record gave a key the challenge was encrypted under, then a Verify with
\* the issued nonce and the challenge bytes generated.
GoodPeer(c) ==
    /\ Len(InFrames(c)) = 3
    /\ InFrames(c)[1].msg.type = "Hello"
    /\ InFrames(c)[2].msg.type = "Identify"
    /\ \E i \in DOMAIN log[c] : log[c][i] = Dns("Encrypted")
    /\ MatchingVerify(c)

\* The runtime's task for the connection is over: it converted the
\* connection, or begin() returned an error or panicked.
TaskOver(c) ==
    \/ phase[c] = "Transfer"
    \/ (Returned(c) /\ result[c].tag = "Err")
    \/ pc[c] = "panicked"

\* The host wrote exactly Acknowledge{ok: true}, Challenge (the generated
\* bytes encrypted, the connection's nonce), Close{can_continue: true}, in
\* this order; begin() returned Ok; the connection is in Transfer state.
FullHandshake(c) ==
    /\ OutMessages(c) =
          << Out(Acknowledge(TRUE, None)),
             Out(Challenge(PublicEncrypt(hostname[c], challenge_bytes[c]), nonce[c])),
             Out(Close(TRUE, None)) >>
    /\ result[c] = Ok
    /\ phase[c] = "Transfer"

\* C6 (as stated): every run with a good peer ends with the three host
\* messages sent, begin() returning Ok and the connection in Transfer state.
C6_GoodPeerReachesTransfer ==
    \A c \in Conns : (GoodPeer(c) /\ TaskOver(c)) => FullHandshake(c)

\* C6 (amended): every run with a good peer in which the stream is still open
\* when the host writes the final Close ends with the three host messages
\* sent, begin() returning Ok and the connection in Transfer state.
C6_GoodPeerOpenStreamReachesTransfer ==
    \A c \in Conns :
        (GoodPeer(c) /\ stream[c] = "open" /\ TaskOver(c)) => FullHandshake(c)

C6_Witness ==
    \E c \in Conns : GoodPeer(c) /\ stream[c] = "open" /\ TaskOver(c) /\ FullHandshake(c)

\* The TXT lookup of the current run returned no record: the lookup failed (no
\* such record) or it answered with an empty record set.
NoTxtRecord(c) ==
    \E i \in DOMAIN log[c] : log[c][i] \in {Dns("LookupFailed"), Dns("NoRecord")}

\* C7: in a run whose TXT lookup returned no record, no challenge bytes are
\* generated, no Challenge is written, and begin() does not return Ok.
C7_NoRecordNoChallenge ==
    \A c \in Conns :
        NoTxtRecord(c) =>
            /\ challenge_bytes[c] = Zeroed
            /\ ~ChallengeSent(c)
            /\ result[c].tag # "Ok"
            /\ pc[c] \in {"send_close_err", "idle", "panicked"}

C7_Witness ==
    \E c \in Conns : NoTxtRecord(c) /\ Returned(c) /\ result[c].kind = "InvalidData"

\* Entry i of the run's log is preceded by an entry satisfying P.
Before(c, i, P(_)) == \E j \in DOMAIN log[c] : j < i /\ P(log[c][j])

\* Entry i of the run's log is preceded by an entry satisfying P, itself
\* preceded by one satisfying Q.
BeforeBoth(c, i, P(_), Q(_)) ==
    \E j, k \in DOMAIN log[c] : k < j /\ j < i /\ P(log[c][j]) /\ Q(log[c][k])

IsHelloIn(e) == IsIn(e, "Hello")
IsIdentifyIn(e) == IsIn(e, "Identify")
IsVerifyIn(e) == IsIn(e, "Verify")
IsAcknowledgeOut(e) == IsOut(e, "Acknowledge")
IsChallengeOut(e) == IsOut(e, "Challenge")

OutTypes(c) == [i \in DOMAIN OutMessages(c) |-> OutMessages(c)[i].msg.type]

\* C8: within a run, Acknowledge is written only after a Hello was read; the
\* lookup and the Challenge come only after an Identify was read, itself after
\* Acknowledge was written; Close{can_continue: true} is written only after a
\* Verify was read, itself after Challenge was written; and the host's
\* messages are, in order, Acknowledge, Challenge, Close, each at most once,
\* none before one that precedes it.
C8_StepsInOrder ==
    \A c \in Conns :
        /\ \A i \in DOMAIN log[c] :
            LET e == log[c][i] IN
            /\ IsOut(e, "Acknowledge") => Before(c, i, IsHelloIn)
            /\ IsDns(e) => BeforeBoth(c, i, IsIdentifyIn, IsAcknowledgeOut)
            /\ IsOut(e, "Challenge") =>
                  /\ BeforeBoth(c, i, IsIdentifyIn, IsAcknowledgeOut)
                  /\ Before(c, i, IsDns)
            /\ (IsOut(e, "Close") /\ e.msg.can_continue) =>
                  BeforeBoth(c, i, IsVerifyIn, IsChallengeOut)
        /\ OutTypes(c) \in
              { <<>>, <<"Close">>, <<"Acknowledge">>, <<"Acknowledge", "Close">>,
                <<"Acknowledge", "Challenge">>,
                <<"Acknowledge", "Challenge", "Close">> }

C8_Witness ==
    \E c \in Conns :
        /\ OutTypes(c) = <<"Acknowledge", "Challenge", "Close">>
        /\ CloseOkSent(c)
        /\ Returned(c)

\* The packet type begin() expects of the k-th frame it reads, and the error
\* text it sends when a packet of another type arrives.
ExpectedType(k) == <<"Hello", "Identify", "Verify">>[k]
ExpectedText(k) == <<ExpectedHello, ExpectedIdentify, ExpectedVerify>>[k]

\* The last frame read in the current run is a well-formed packet of a type
\* other than the one expected at that step.
UnexpectedPacket(c) ==
    LET k == Len(InFrames(c)) IN
    /\ k > 0
    /\ InFrames(c)[k].msg.type \notin {ExpectedType(k), "Malformed"}

\* C9: a run that read a well-formed packet of an unexpected type ends with
\* Close{can_continue: false, err: "Expected ... packet"} as the last thing
\* written and begin() returning an InvalidInput error; no later step (a read,
\* a lookup, another message) is executed.
C9_UnexpectedPacketIsInvalidInput ==
    \A c \in Conns :
        UnexpectedPacket(c) =>
            LET k == Len(InFrames(c)) IN
            /\ pc[c] \in {"send_close_err", "idle", "panicked"}
            /\ RunOver(c) =>
                  /\ result[c] = Err("InvalidInput", ExpectedText(k))
                  /\ log[c][Len(log[c])] = Out(Close(FALSE, ExpectedText(k)))

\* C10: no two Challenge messages the host has written, over all begin()
\* invocations on all connections, carry the same nonce.
C10_NonceNeverReused ==
    \A i, j \in DOMAIN issued : i # j => issued[i].nonce # issued[j].nonce

(* ------------------ what the failing claims rest on -------------------- *)

\* Whenever begin() returns after a Verify with the wrong nonce, it returns
\* the InvalidData error "Invalid nonce".  (C4 fails only where begin() does
\* not return, or where the caller converts the connection all the same.)
Aux_WrongNonceReturnsInvalidData ==
    \A c \in Conns :
        (VerifyWithWrongNonce(c) /\ Returned(c)) =>
            result[c] = Err("InvalidData", InvalidNonce)

\* Under the runtime of the design, a connection whose Verify had the wrong
\* nonce is never converted.
Aux_WrongNonceNotConverted ==
    \A c \in Conns : VerifyWithWrongNonce(c) => phase[c] # "Transfer"

\* Whenever begin() returns after a Verify with the issued nonce and the wrong
\* challenge bytes, it returns the PermissionDenied error "Challenge failed".
Aux_WrongChallengeReturnsPermissionDenied ==
    \A c \in Conns :
        (VerifyWithWrongChallenge(c) /\ ~VerifyWithWrongNonce(c) /\ Returned(c)) =>
            result[c] = Err("PermissionDenied", ChallengeFailed)

\* Whenever begin() returns after a packet of an unexpected type, it returns
\* the InvalidInput error and the Close is the last thing it wrote.
Aux_UnexpectedPacketReturnsInvalidInput ==
    \A c \in Conns :
        (UnexpectedPacket(c) /\ Returned(c)) =>
            /\ result[c] = Err("InvalidInput", ExpectedText(Len(InFrames(c))))
            /\ log[c][Len(log[c])] = Out(Close(FALSE, ExpectedText(Len(InFrames(c)))))

\* A connection is in Transfer state only if it was constructed and no begin()
\* is running on it: conversion is the only way into Transfer.
Aux_TransferOnlyByConversion ==
    [][\A c \in Conns :
          (phase[c] # "Transfer" /\ phase'[c] = "Transfer") =>
              (phase[c] = "Handshake" /\ pc[c] = "idle")]_vars

(* ------------------------- claims C11 to C20 --------------------------- *)

\* The random generator failed in the current run (rand_bytes(..).unwrap()).
RandFailedInRun(c) == \E i \in DOMAIN log[c] : log[c][i] = Dns("RandFailed")

\* C11: a run during which the stream was closed ends with begin() returning
\* an error to its caller: the task does not crash and does not end without
\* a result.  (The failure of the random generator, which is no stream
\* failure, is left aside.)
C11_ClosedStreamReturnsErr ==
    \A c \in Conns :
        (stream[c] = "closed" /\ RunOver(c) /\ ~RandFailedInRun(c)) =>
            (Returned(c) /\ result[c].tag = "Err")

\* Whenever begin() returns on a closed stream, it returns an error; and the
\* only crash on a closed stream is the unwrap() of send_close_err.
Aux_ClosedStreamPanicsOnlyInSendCloseErr ==
    \A c \in Conns :
        (stream[c] = "closed" /\ RunOver(c) /\ ~RandFailedInRun(c)) =>
            \/ (Returned(c) /\ result[c].tag = "Err")
            \/ (pc[c] = "panicked" /\ closing[c] # NoClosing)

\* The positions in the run's log at which the host wrote a Close.
ClosePositions(c) == {i \in DOMAIN log[c] : IsOut(log[c][i], "Close")}

\* C19: in one run of begin() the host writes at most one Close (so never
\* both a Close with can_continue true and one with can_continue false), and
\* writes nothing after it.
C19_AtMostOneCloseAndLast ==
    \A c \in Conns :
        /\ Cardinality(ClosePositions(c)) <= 1
        /\ \A i \in ClosePositions(c) :
               \A j \in DOMAIN log[c] : j > i => log[c][j].dir # "out"

\* A run that wrote Acknowledge and Challenge and then aborted with a Close.
C19_Witness ==
    \E c \in Conns :
        /\ Returned(c)
        /\ result[c].tag = "Err"
        /\ Len(OutMessages(c)) = 3
        /\ IsOut(OutMessages(c)[3], "Close")
        /\ ~OutMessages(c)[3].msg.can_continue

\* What the handshake operations of a connection write: the position of
\* begin(), its runs, its result, what it read and wrote, and the fields of
\* the Handshake-state connection.
HandshakeView(c) ==
    <<pc[c], runs[c], result[c], log[c], closing[c], hostname[c],
      challenge_bytes[c], connection_type[c], nonce[c]>>

\* C13: the conversion is one-way and happens at most once per connection: a
\* connection becomes Transfer only from Handshake, a Transfer-state
\* connection stays Transfer, and no handshake operation (begin(), a read or
\* a write of a handshake packet) acts on it any more.
C13_ConversionIsOneWay ==
    [][\A c \in Conns :
          /\ (phase'[c] = "Transfer" /\ phase[c] # "Transfer") => phase[c] = "Handshake"
          /\ phase[c] = "Transfer" =>
                /\ phase'[c] = "Transfer"
                /\ HandshakeView(c)' = HandshakeView(c)]_vars

\* A connection was converted after a run of begin() while a handshake is in
\* progress on another connection.
C13_Witness ==
    \E c, d \in Conns :
        /\ phase[c] = "Transfer"
        /\ runs[c] > 0
        /\ phase[d] = "Handshake"
        /\ pc[d] \notin {"idle", "panicked"}

\* The first step of the current run read a Hello (the first thing a run
\* logs is the frame read at line 71).
HelloRead(c) == log[c] # <<>> /\ IsIn(log[c][1], "Hello")

\* The run of begin() on the connection is over and did not return Ok.
Aborted(c) == RunOver(c) /\ runs[c] > 0 /\ result[c].tag # "Ok"

\* C20: the nonce sent in Challenge is the one generated at construction, a
\* run that aborts at the first step (no Hello read) leaves connection_type at
\* Unknown, and a run that aborts at a later step leaves it at the value
\* declared in Hello.
C20_ConnectionTypeAfterAbort ==
    \A c \in Conns :
        /\ \A i \in DOMAIN log[c] :
               IsOut(log[c][i], "Challenge") => log[c][i].msg.nonce = nonce[c]
        /\ Aborted(c) =>
               /\ ~HelloRead(c) => connection_type[c] = "Unknown"
               /\ HelloRead(c) => connection_type[c] = log[c][1].msg.connection_type

\* No step of begin() changes the nonce, and connection_type changes only in
\* the step that reads a Hello, to the value the Hello declares.
Aux_BeginWritesConnectionTypeOnHello ==
    [][\A c \in Conns :
          /\ (phase[c] # None => nonce'[c] = nonce[c])
          /\ (phase[c] # None /\ connection_type'[c] # connection_type[c]) =>
                /\ pc[c] = "read_hello"
                /\ log'[c] = Append(log[c], In(Hello(connection_type'[c])))]_vars

\* A run that aborts at the first step leaves connection_type as it was when
\* begin() was called, which is Unknown when no earlier run read a Hello.
Aux_FirstRunAbortLeavesUnknown ==
    \A c \in Conns :
        (Aborted(c) /\ runs[c] = 1 /\ ~HelloRead(c)) => connection_type[c] = "Unknown"

\* C12: the conversion keeps the classifier and changes nothing but the codec
\* pair (the phase): the connection_type of the Transfer-state connection is
\* the value declared in the Hello that the last run of begin() read at step
\* 1, and every other field of the connection, the stream and what was read
\* and written are as before.
C12_ConversionKeepsConnectionType ==
    [][\A c \in Conns :
          (phase[c] = "Handshake" /\ phase'[c] = "Transfer") =>
              /\ HelloRead(c) => connection_type'[c] = log[c][1].msg.connection_type
              /\ HandshakeView(c)' = HandshakeView(c)
              /\ stream'[c] = stream[c]]_vars

\* A converted connection whose peer declared a classifier other than the
\* one the constructor sets.
C12_Witness ==
    \E c \in Conns :
        /\ phase[c] = "Transfer"
        /\ HelloRead(c)
        /\ log[c][1].msg.connection_type = "Declared"
        /\ connection_type[c] = "Declared"

\* Everything that belongs to one connection.
ConnectionView(c) == <<phase[c], stream[c], HandshakeView(c)>>

\* In its current run, connection b read a Verify that carries the nonce of
\* a Challenge written on connection a.
ReplayedOn(a, b) ==
    \E k \in DOMAIN issued, j \in DOMAIN log[b] :
        /\ issued[k].conn = a
        /\ IsIn(log[b][j], "Verify")
        /\ log[b][j].msg.nonce = issued[k].nonce

\* C14: connections are independent.  A Verify replaying the nonce of a
\* Challenge of connection a, read on another connection b, never makes b's
\* handshake succeed (whatever challenge bytes it carries); and every step
\* reads and writes the state of one connection only, so the steps of one
\* handshake leave the other handshake where it was.
C14_ConnectionsIndependent ==
    /\ [](\A a, b \in Conns :
             (a # b /\ ReplayedOn(a, b)) => (~CloseOkSent(b) /\ result[b].tag # "Ok"))
    /\ [][\A a, b \in Conns :
             (a # b /\ ConnectionView(a)' # ConnectionView(a)) =>
                 ConnectionView(b)' = ConnectionView(b)]_vars

\* Two handshakes in progress at once, each with its Challenge written; the
\* Verify read on one of them carried the nonce and the challenge bytes of the
\* other, and its run ended with an error.
C14_Witness ==
    \E a, b \in Conns :
        /\ a # b
        /\ ChallengeSent(a)
        /\ pc[a] = "read_verify"
        /\ ChallengeSent(b)
        /\ \E j \in DOMAIN log[b] :
               /\ IsIn(log[b][j], "Verify")
               /\ log[b][j].msg.nonce = nonce[a]
               /\ log[b][j].msg.challenge = challenge_bytes[a]
        /\ Returned(b)
        /\ result[b].tag = "Err"

\* The lookup step of the current run had outcome o.
LookupOutcomeWas(c, o) == \E i \in DOMAIN log[c] : log[c][i] = Dns(o)

\* The text names the record location _osp.<hostname>.
NamesRecordLocation(text, h) ==
    \E i \in 1..(Len(text) - 1) : text[i] = "_osp." /\ text[i + 1] = h

\* The run wrote a Close { can_continue: false } whose text names the record
\* location of the hostname the peer identified with.
CloseNamesRecordLocation(c) ==
    \E i \in ClosePositions(c) :
        /\ ~log[c][i].msg.can_continue
        /\ log[c][i].msg.err # None
        /\ NamesRecordLocation(log[c][i].msg.err, hostname[c])

\* begin() returned an error of the given io::ErrorKind.
ReturnedErr(c, kind) == Returned(c) /\ result[c].tag = "Err" /\ result[c].kind = kind

\* How a run that reached the lookup step with the given outcome ends,
\* according to the claim.
ResolveFailureClassified(c) ==
    /\ LookupOutcomeWas(c, "LookupFailed") =>
           (ReturnedErr(c, "Other") /\ CloseNamesRecordLocation(c))
    /\ LookupOutcomeWas(c, "BadPem") => ReturnedErr(c, "Other")
    /\ LookupOutcomeWas(c, "NoRecord") =>
           (ReturnedErr(c, "InvalidData") /\ CloseNamesRecordLocation(c))

\* C15: a run whose lookup fails or whose key does not parse ends with
\* begin() returning an error of the I/O failure kind (io::ErrorKind::Other),
\* a run whose lookup finds no TXT record ends with begin() returning
\* InvalidData, and in the lookup-failure and no-record cases the Close sent
\* to the peer names _osp.<hostname>.
C15_ResolveFailureClassified ==
    \A c \in Conns : RunOver(c) => ResolveFailureClassified(c)

\* Whenever begin() returns after a failure of the resolve step, the error
\* and the Close are the ones the claim describes.
Aux_ResolveFailureClassifiedOnReturn ==
    \A c \in Conns : Returned(c) => ResolveFailureClassified(c)

\* C16: one call of handle(payload) invokes every registered handler exactly
\* once, in registration order, each with the payload that was handed to
\* handle(); the call leaves the handler list and the payload as they were.
C16_DispatchInRegistrationOrder ==
    [][dispatches' # dispatches =>
          /\ Len(calls') = Len(handlers)
          /\ \A i \in 1..Len(handlers) :
                 calls'[i].handler = handlers[i] /\ calls'[i].obj = obj'
          /\ handlers' = handlers]_vars

\* A dispatch to three handlers registered in an order that is not the order
\* of their names, one of them registered twice.
C16_Witness ==
    /\ dispatches > 0
    /\ handlers = <<"h2", "h1", "h2">>
    /\ Len(calls) = 3

\* C17: whenever encode_to_bytes(p) returned Ok(n), decode_from_bytes on the
\* buffer it wrote returns Ok with a value equal to p and the count n.
C17_EncodeDecodeRoundTrip ==
    (encoded.tag = "Ok" /\ decoded # NoCodecResult) =>
        /\ decoded.tag = "Ok"
        /\ decoded.obj = encoded.obj
        /\ decoded.len = encoded.len

\* A payload whose integer takes the three-byte form was encoded into a
\* buffer longer than the encoding and decoded again.
C17_Witness ==
    /\ encoded.tag = "Ok"
    /\ encoded.obj.count = 256
    /\ encoded.len = 4
    /\ Len(buf) > encoded.len
    /\ decoded.tag = "Ok"

\* encode_to_bytes fails on a buffer that holds fewer bytes than the
\* encoding, whatever its capacity: it never grows the buffer.
Aux_EncodeNeedsRoom ==
    /\ encoded.tag = "Ok" => Len(buf) >= encoded.len
    /\ (encoded.tag = "Err") =>
           Len(buf) < (IF encoded.obj.count <= SingleByteMax THEN 2 ELSE 4)

\* begin() is in progress on the connection.
Running(c) == pc[c] \notin {"idle", "panicked"}

\* C18: under fair scheduling a run of begin() whose awaited frames arrive
\* (or whose stream closes) and whose lookup returns ends with begin()
\* returning Ok or Err.
C18_FairRunReturns ==
    \A c \in Conns : Running(c) ~> Returned(c)

\* Under fair scheduling every run of begin() ends: it returns or it panics.
Aux_FairRunEnds ==
    \A c \in Conns : Running(c) ~> RunOver(c)

\* No timeout: a run leaves a step only by that step's own event.  It leaves
\* a read when a frame was read or the read failed on the closed stream, and
\* it leaves the lookup when the lookup was answered.
Aux_NoTimeout ==
    [][\A c \in Conns :
          (Running(c) /\ pc'[c] # pc[c]) =>
              CASE pc[c] \in {"read_hello", "read_identify", "read_verify"} ->
                       \/ \E f \in GuestPackets \cup {Malformed} : log'[c] = Append(log[c], In(f))
                       \/ (stream[c] = "closed" /\ result'[c] = TruncatedError)
                [] pc[c] = "lookup" ->
                       \E o \in LookupOutcomes : log'[c] = Append(log[c], Dns(o))
                [] OTHER -> TRUE]_vars

====
